---- MODULE Spec2Model ----
(***************************************************************************)
(* Model of the geometric core of mymi: CT volume reconstruction           *)
(* (DicomPatient.ct_summary / ct_data, CTSeries.spacing / data), contour   *)
(* rasterisation (DicomPatient.label_data), region-name mapping           *)
(* (RegionMap.load / to_internal), the regions of a structure set          *)
(* (RTSTRUCTSeries.region_names / region_data), series resolution          *)
(* (CTSeries, get_rtstruct), the partitions of process_nifti and the       *)
(* active dataset of mymi.dataset.                                         *)
(*                                                                         *)
(* All physical lengths are integers in units of 1/1000 mm, so that        *)
(* "rounded to 2 decimals" is rounding to a multiple of 10 units.  Both    *)
(* numpy's and Python's round() round halves to the even neighbour.        *)
(***************************************************************************)
EXTENDS Integers, Sequences, FiniteSets, TLC

VARIABLES pc, err, cts, summary, data, zidxs, geom,
          rois, labels, roiIdx, conIdx, mask, planes, labelPairs, logged,
          table, hasCase, region, patId, mapResult,
          file, rtRois, rtArgs, names, nameIdx, regionDict,
          index, seriesId, rtstructDir, resolved,
          objectIds, proportions, partitions,
          datasets, active, selectArg, answered

vars == <<pc, err, cts, summary, data, zidxs, geom,
          rois, labels, roiIdx, conIdx, mask, planes, labelPairs, logged,
          table, hasCase, region, patId, mapResult,
          file, rtRois, rtArgs, names, nameIdx, regionDict,
          index, seriesId, rtstructDir, resolved,
          objectIds, proportions, partitions,
          datasets, active, selectArg, answered>>

ctVars == <<cts, summary, data, zidxs, geom>>
labelVars == <<rois, labels, roiIdx, conIdx, mask, planes, labelPairs, logged>>
mapVars == <<table, hasCase, region, patId, mapResult>>
loadVars == <<file>>
rtVars == <<rtRois, rtArgs, names, nameIdx, regionDict>>
resolveVars == <<index, seriesId, rtstructDir, resolved>>
niftiVars == <<objectIds, proportions, partitions>>
datasetVars == <<datasets, active, selectArg, answered>>

(***************************************************************************)
(* Bounds of the model.                                                    *)
(***************************************************************************)
\* slice positions are base + pitch * k for k in a subset of 0..MaxK
MaxK == 9
\* series with per-slice in-plane geometry have positions k in 0..MaxGeomK
MaxGeomK == 2

\* a length given in mm, in model units
Mm(n) == 1000 * n

\* grids of slice positions: <<pitch, position of the lowest grid point>>
ZGrids == {<<4, 0>>, <<500, 0>>, <<1000, -3700>>}
RescaleSet == {[slope |-> 1, icpt |-> -1024], [slope |-> 2, icpt |-> 0]}

BaseGeom == [ox |-> 0, oy |-> 0, sx |-> 3, sy |-> 2, px |-> 1000, py |-> 1000]
Geoms == {BaseGeom,
          [BaseGeom EXCEPT !.ox = 500],
          [BaseGeom EXCEPT !.oy = 500],
          [BaseGeom EXCEPT !.sx = 2],
          [BaseGeom EXCEPT !.sy = 3],
          [BaseGeom EXCEPT !.px = 500],
          [BaseGeom EXCEPT !.py = 500],
          [BaseGeom EXCEPT !.sy = 3, !.py = 500]}

(***************************************************************************)
(* Arithmetic helpers.                                                     *)
(***************************************************************************)
Abs(a) == IF a < 0 THEN -a ELSE a

SetMin(S) == CHOOSE m \in S : \A s \in S : m <= s
SetMax(S) == CHOOSE m \in S : \A s \in S : m >= s

\* round(a / b) for a >= 0, b > 0, halves to the even neighbour
RoundDivNat(a, b) ==
    LET q == a \div b
        r == a % b
    IN  IF 2 * r < b THEN q
        ELSE IF 2 * r > b THEN q + 1
        ELSE IF q % 2 = 0 THEN q ELSE q + 1

\* round(a / b) for b > 0 and any sign of a
RoundDiv(a, b) == IF a >= 0 THEN RoundDivNat(a, b) ELSE -RoundDivNat(-a, b)

\* int(a / b): truncation towards zero, b > 0
TruncDiv(a, b) == IF a >= 0 THEN a \div b ELSE -((-a) \div b)

\* round(d, 2) of a length d
Round2(d) == 10 * RoundDiv(d, 10)

\* numpy's resolution of an integer index on an axis of length n:
\* -1 when the index is out of bounds (IndexError)
NumpyIndex(i, n) ==
    IF i >= 0 /\ i < n THEN i
    ELSE IF i < 0 /\ i >= -n THEN n + i
    ELSE -1

RECURSIVE SortedSeq(_)
SortedSeq(S) ==
    IF S = {} THEN <<>>
    ELSE LET m == SetMin(S) IN <<m>> \o SortedSeq(S \ {m})

(***************************************************************************)
(* CT slices.                                                              *)
(***************************************************************************)
\* ct.pixel_array, indexed [row][col], rows = size-y, cols = size-x
PixelArray(ct) ==
    [r \in 0..(ct.sy - 1) |-> [c \in 0..(ct.sx - 1) |-> ct.seed + 10 * r + c]]

\* ct.pixel_array * ct.RescaleSlope + ct.RescaleIntercept
Hus(ct) ==
    [r \in 0..(ct.sy - 1) |->
        [c \in 0..(ct.sx - 1) |-> PixelArray(ct)[r][c] * ct.slope + ct.icpt]]

HuValues(ct) == {Hus(ct)[r][c] : r \in 0..(ct.sy - 1), c \in 0..(ct.sx - 1)}

\* np.transpose(ct.pixel_array) rescaled: indexed [x][y]
SliceData(ct) ==
    [x \in 0..(ct.sx - 1) |->
        [y \in 0..(ct.sy - 1) |-> ct.slope * PixelArray(ct)[y][x] + ct.icpt]]

MkSlice(z, g, seed, rs) ==
    [z |-> z, ox |-> g.ox, oy |-> g.oy, sx |-> g.sx, sy |-> g.sy,
     px |-> g.px, py |-> g.py, seed |-> seed,
     slope |-> rs.slope, icpt |-> rs.icpt]

ZOffsets(s) == [i \in 1..Len(s) |-> s[i].z]

\* np.diff of the sorted z positions
Diffs(zs) == [i \in 1..(Len(zs) - 1) |-> zs[i + 1] - zs[i]]

SeqRange(s) == {s[i] : i \in 1..Len(s)}

\* mutant: the check of 'spacing-y' is missing
GeomFields_mutNoSpacingY == <<"offset-x", "offset-y", "size-x", "size-y", "spacing-x">>

\* the fields compared per slice, in the order of the checks
GeomFields == <<"offset-x", "offset-y", "size-x", "size-y", "spacing-x", "spacing-y">>

FieldOf(ct, f) ==
    CASE f = "offset-x" -> ct.ox
      [] f = "offset-y" -> ct.oy
      [] f = "size-x" -> ct.sx
      [] f = "size-y" -> ct.sy
      [] f = "spacing-x" -> ct.px
      [] f = "spacing-y" -> ct.py

\* slices that differ from the first slice in some compared field
BadSlices(s) ==
    {i \in 1..Len(s) : \E k \in 1..Len(GeomFields) :
        FieldOf(s[i], GeomFields[k]) # FieldOf(s[1], GeomFields[k])}

\* the first check that raises for slice i
FirstBadField(s, i) ==
    GeomFields[SetMin({k \in 1..Len(GeomFields) :
        FieldOf(s[i], GeomFields[k]) # FieldOf(s[1], GeomFields[k])})]

Failure(msg) == [ok |-> FALSE, err |-> msg]

\* mutant: the gap between the two lowest slices instead of the smallest gap
ZSpacing_mutFirstGap(s) == Round2(Diffs(ZOffsets(s))[1])

\* z_spacing = np.min([round(s, 2) for s in np.diff(sorted(z_offsets))])
ZSpacing(s) == SetMin({Round2(d) : d \in SeqRange(Diffs(ZOffsets(s)))})

\* z_fov = np.max(z_offsets) - np.min(z_offsets)
ZFov(s) == SetMax(SeqRange(ZOffsets(s))) - SetMin(SeqRange(ZOffsets(s)))

\* mutant: the quotient is truncated instead of rounded
ZSize_mutTruncate(fov, spacing) == TruncDiv(fov, spacing) + 1

\* z_size = int(round(z_fov / z_spacing, 0) + 1)
ZSize(fov, spacing) == RoundDiv(fov, spacing) + 1

\* DicomPatient.ct_summary on the slices returned by get_cts
CtSummary(s) ==
    IF Len(s) = 0 THEN Failure("No CTs found")
    ELSE IF BadSlices(s) # {}
    THEN Failure(FirstBadField(s, SetMin(BadSlices(s))))
    ELSE IF Len(s) < 2 THEN Failure("zero-size array")
    ELSE IF ZSpacing(s) = 0 THEN Failure("cannot convert float")
    ELSE LET allHu == UNION {HuValues(s[i]) : i \in 1..Len(s)}
             zsize == ZSize(ZFov(s), ZSpacing(s))
         IN [ok |-> TRUE, err |-> "",
             humin |-> SetMin(allHu), humax |-> SetMax(allHu),
             offx |-> s[1].ox, offy |-> s[1].oy,
             offz |-> SetMin(SeqRange(ZOffsets(s))),
             sizex |-> s[1].sx, sizey |-> s[1].sy, sizez |-> zsize,
             spx |-> s[1].px, spy |-> s[1].py, spz |-> ZSpacing(s),
             fovx |-> s[1].sx * s[1].px, fovy |-> s[1].sy * s[1].py,
             fovz |-> ZFov(s),
             missing |-> zsize - Len(s)]

NoSummary == Failure("none")

\* np.zeros(shape), indexed [z][x][y]
Zeros(sx, sy, sz) ==
    [z \in 0..(sz - 1) |-> [x \in 0..(sx - 1) |-> [y \in 0..(sy - 1) |-> 0]]]

NoData == <<>>
NoGeom == Failure("none")

\* z index of a slice in DicomPatient.ct_data
CtZIdx(ct, sm) == RoundDiv(ct.z - sm.offz, sm.spz)

(***************************************************************************)
(* CTSeries geometry.                                                      *)
(***************************************************************************)
\* CTSeries.offset: tuple(int(s) for s in cts[0].ImagePositionPatient)
SeriesOffset(s) ==
    <<Mm(TruncDiv(s[1].ox, Mm(1))), Mm(TruncDiv(s[1].oy, Mm(1))),
      Mm(TruncDiv(s[1].z, Mm(1)))>>

\* CTSeries.size
SeriesSize(s) == <<s[1].sx, s[1].sy, Len(s)>>

\* mutant: the gap is taken to the last slice, which a single slice has
SeriesSpacing_mutLast(s) ==
    [ok |-> TRUE, err |-> "",
     spacing |-> <<s[1].px, s[1].py, Abs(s[Len(s)].z - s[1].z)>>]

\* CTSeries.spacing: cts[1] raises IndexError on a series of one slice
SeriesSpacing(s) ==
    IF Len(s) < 2 THEN Failure("IndexError")
    ELSE [ok |-> TRUE, err |-> "",
          spacing |-> <<s[1].px, s[1].py, Abs(s[2].z - s[1].z)>>]

\* z index of a slice in CTSeries.data
SeriesZIdx(ct, g) == RoundDiv(ct.z - g.offset[3], g.spacing[3])

(***************************************************************************)
(* Initial states of the CT specification: the slices get_cts returns,     *)
(* sorted by z.                                                            *)
(***************************************************************************)
IdleRest ==
    /\ pc = "idle"
    /\ err = ""
    /\ summary = NoSummary
    /\ data = NoData
    /\ zidxs = <<>>
    /\ geom = NoGeom

LabelIdle ==
    /\ rois = <<>>
    /\ labels = "all"
    /\ roiIdx = 0
    /\ conIdx = 0
    /\ mask = NoData
    /\ planes = <<>>
    /\ labelPairs = <<>>
    /\ logged = <<>>

LoadIdle == file = [exists |-> FALSE, rows |-> <<>>]

RtIdle ==
    /\ rtRois = <<>>
    /\ rtArgs = [regions |-> [kind |-> "all", names |-> {}], useMapping |-> FALSE,
                 hasMap |-> FALSE, allowUnknown |-> FALSE, includeUnmapped |-> FALSE]
    /\ names = <<>>
    /\ nameIdx = 0
    /\ regionDict = <<>>

MapIdle ==
    /\ table = <<>>
    /\ hasCase = FALSE
    /\ region = ""
    /\ patId = ""
    /\ mapResult = [ok |-> FALSE]

ResolveIdle ==
    /\ index = <<>>
    /\ seriesId = ""
    /\ rtstructDir = [exists |-> FALSE, files |-> 0]
    /\ resolved = [kind |-> "none", cts |-> <<>>]

NiftiIdle ==
    /\ objectIds = <<>>
    /\ proportions = [train |-> 0, validation |-> 0, test |-> 0]
    /\ partitions = [train |-> <<>>, validation |-> <<>>, test |-> <<>>]

DEFAULT_ACTIVE == "HEAD-NECK-RADIOMICS-HN1"

DatasetIdle ==
    /\ datasets = {DEFAULT_ACTIVE}
    /\ active = DEFAULT_ACTIVE
    /\ selectArg = ""
    /\ answered = [query |-> "", by |-> ""]

\* uniform in-plane geometry, any subset of the grid positions
InitUniform ==
    \E K \in SUBSET (0..MaxK), grid \in ZGrids :
        LET ks == SortedSeq(K)
        IN  cts = [i \in 1..Len(ks) |->
                      MkSlice(grid[2] + grid[1] * ks[i], BaseGeom, ks[i] + 1,
                              [slope |-> 1, icpt |-> -1024])]

\* per-slice in-plane geometry on a short series
InitGeoms ==
    \E K \in SUBSET (0..MaxGeomK) :
        LET ks == SortedSeq(K)
        IN  \E gs \in [1..Len(ks) -> Geoms], rs \in RescaleSet :
                cts = [i \in 1..Len(ks) |->
                          MkSlice(Mm(ks[i]), gs[i], ks[i] + 1, rs)]

InitCT ==
    /\ InitUniform \/ InitGeoms
    /\ IdleRest
    /\ ResolveIdle
    /\ NiftiIdle
    /\ DatasetIdle
    /\ LoadIdle
    /\ RtIdle
    /\ LabelIdle
    /\ MapIdle

(***************************************************************************)
(* Actions of the CT specification.                                        *)
(***************************************************************************)
\* DicomPatient.ct_summary
CtSummaryCall ==
    /\ pc = "idle"
    /\ summary' = CtSummary(cts)
    /\ pc' = IF summary'.ok THEN "summary_done" ELSE "summary_error"
    /\ err' = summary'.err
    /\ UNCHANGED <<cts, data, zidxs, geom, labelVars, mapVars>>
    /\ UNCHANGED <<loadVars, rtVars>>
    /\ UNCHANGED <<resolveVars, niftiVars, datasetVars>>

\* DicomPatient.ct_data up to the allocation of the volume
CtDataBegin ==
    /\ pc = "idle"
    /\ summary' = CtSummary(cts)
    /\ IF summary'.ok
       THEN /\ data' = Zeros(summary'.sizex, summary'.sizey, summary'.sizez)
            /\ pc' = "ct_data"
            /\ err' = ""
       ELSE /\ data' = data
            /\ pc' = "ct_data_error"
            /\ err' = summary'.err
    /\ UNCHANGED <<cts, zidxs, geom, labelVars, mapVars>>
    /\ UNCHANGED <<loadVars, rtVars>>
    /\ UNCHANGED <<resolveVars, niftiVars, datasetVars>>

\* one iteration of the loop of DicomPatient.ct_data
CtDataStep ==
    /\ pc = "ct_data"
    /\ Len(zidxs) < Len(cts)
    /\ LET ct == cts[Len(zidxs) + 1]
           zi == CtZIdx(ct, summary)
           at == NumpyIndex(zi, summary.sizez)
       IN  IF at = -1
           THEN /\ pc' = "ct_data_error"
                /\ err' = "IndexError"
                /\ UNCHANGED <<data, zidxs>>
           ELSE /\ data' = [data EXCEPT ![at] = SliceData(ct)]
                /\ zidxs' = Append(zidxs, zi)
                /\ UNCHANGED <<pc, err>>
    /\ UNCHANGED <<cts, summary, geom, labelVars, mapVars>>
    /\ UNCHANGED <<loadVars, rtVars>>
    /\ UNCHANGED <<resolveVars, niftiVars, datasetVars>>

\* return of DicomPatient.ct_data
CtDataReturn ==
    /\ pc = "ct_data"
    /\ Len(zidxs) = Len(cts)
    /\ pc' = "ct_data_done"
    /\ UNCHANGED <<err, ctVars, labelVars, mapVars>>
    /\ UNCHANGED <<loadVars, rtVars>>
    /\ UNCHANGED <<resolveVars, niftiVars, datasetVars>>

\* the CTSeries.spacing property
SeriesSpacingCall ==
    /\ pc = "idle"
    /\ IF Len(cts) = 0
       THEN /\ pc' = "spacing_error"
            /\ err' = "CT series not found in index"
            /\ geom' = geom
       ELSE /\ geom' = SeriesSpacing(cts)
            /\ pc' = IF geom'.ok THEN "spacing_done" ELSE "spacing_error"
            /\ err' = geom'.err
    /\ UNCHANGED <<cts, summary, data, zidxs, labelVars, mapVars>>
    /\ UNCHANGED <<loadVars, rtVars>>
    /\ UNCHANGED <<resolveVars, niftiVars, datasetVars>>

\* CTSeries.data up to the allocation of the volume
SeriesDataBegin ==
    /\ pc = "idle"
    /\ IF Len(cts) = 0
       THEN /\ pc' = "series_data_error"
            /\ err' = "CT series not found in index"
            /\ UNCHANGED <<geom, data>>
       ELSE IF ~SeriesSpacing(cts).ok
       THEN /\ pc' = "series_data_error"
            /\ err' = SeriesSpacing(cts).err
            /\ UNCHANGED <<geom, data>>
       ELSE /\ geom' = [ok |-> TRUE, err |-> "", size |-> SeriesSize(cts),
                        offset |-> SeriesOffset(cts),
                        spacing |-> SeriesSpacing(cts).spacing]
            /\ data' = Zeros(geom'.size[1], geom'.size[2], geom'.size[3])
            /\ pc' = "series_data"
            /\ err' = ""
    /\ UNCHANGED <<cts, summary, zidxs, labelVars, mapVars>>
    /\ UNCHANGED <<loadVars, rtVars>>
    /\ UNCHANGED <<resolveVars, niftiVars, datasetVars>>

\* one iteration of the loop of CTSeries.data
SeriesDataStep ==
    /\ pc = "series_data"
    /\ Len(zidxs) < Len(cts)
    /\ LET ct == cts[Len(zidxs) + 1]
       IN  IF geom.spacing[3] = 0
           THEN /\ pc' = "series_data_error"
                /\ err' = "cannot convert float"
                /\ UNCHANGED <<data, zidxs>>
           ELSE LET zi == SeriesZIdx(ct, geom)
                    at == NumpyIndex(zi, geom.size[3])
                IN  IF at = -1 \/ ct.sx # geom.size[1] \/ ct.sy # geom.size[2]
                    THEN /\ pc' = "series_data_error"
                         /\ err' = IF at = -1 THEN "IndexError" ELSE "could not broadcast"
                         /\ UNCHANGED <<data, zidxs>>
                    ELSE /\ data' = [data EXCEPT ![at] = SliceData(ct)]
                         /\ zidxs' = Append(zidxs, zi)
                         /\ UNCHANGED <<pc, err>>
    /\ UNCHANGED <<cts, summary, geom, labelVars, mapVars>>
    /\ UNCHANGED <<loadVars, rtVars>>
    /\ UNCHANGED <<resolveVars, niftiVars, datasetVars>>

\* return of CTSeries.data
SeriesDataReturn ==
    /\ pc = "series_data"
    /\ Len(zidxs) = Len(cts)
    /\ pc' = "series_data_done"
    /\ UNCHANGED <<err, ctVars, labelVars, mapVars>>
    /\ UNCHANGED <<loadVars, rtVars>>
    /\ UNCHANGED <<resolveVars, niftiVars, datasetVars>>

NextCT ==
    \/ CtSummaryCall
    \/ CtDataBegin
    \/ CtDataStep
    \/ CtDataReturn
    \/ SeriesSpacingCall
    \/ SeriesDataBegin
    \/ SeriesDataStep
    \/ SeriesDataReturn

SpecCT == InitCT /\ [][NextCT]_vars

(***************************************************************************)
(* Contour rasterisation: DicomPatient.label_data.                         *)
(*                                                                         *)
(* A contour is a rectangle with sides parallel to the axes, given by the  *)
(* physical coordinates of its sides and the z of its first vertex.        *)
(***************************************************************************)
\* ROIs of a structure set
MaxRois == 2
\* contours of a structure set, over all its ROIs
MaxContours == 3

\* ROI names, in ascending string order
RegionNames == <<"Brain", "Cord", "Lens", "Parotid">>

NameRank(n) == CHOOSE i \in 1..Len(RegionNames) : RegionNames[i] = n

\* a contour: z is the z of its first vertex, zrest the z of its other vertices
MkContour(x0, x1, y0, y1, z) ==
    [type |-> "CLOSED_PLANAR", x0 |-> x0, x1 |-> x1, y0 |-> y0, y1 |-> y1,
     z |-> z, zrest |-> z]

\* the whole of plane 0 of the 3 x 2 x 3 volume
Full0 == MkContour(0, 2000, 0, 1000, 0)
\* a pin hole in plane 0
Hole0 == MkContour(500, 1500, -500, 500, 0)
\* a strip in plane 1
Strip1 == MkContour(0, 1000, 500, 1500, 1000)

BasicContours == {Full0, Hole0, Strip1}

RECURSIVE SeqsUpTo(_, _)
SeqsUpTo(S, n) ==
    IF n = 0 THEN {<<>>}
    ELSE LET shorter == SeqsUpTo(S, n - 1)
         IN  shorter \cup {Append(q, e) : q \in shorter, e \in S}

\* the contour lists of at most n contours
ContourLists(n) ==
    SeqsUpTo(BasicContours, n)
        \cup (IF n >= 1
              THEN {\* beyond the columns of the volume
                    <<MkContour(1000, 3000, 0, 1000, 0)>>,
                    \* between the slices at 1 mm and 2 mm
                    <<MkContour(0, 1000, 0, 1000, 1600)>>,
                    \* first vertex at 1 mm, the others at 2 mm
                    <<[MkContour(0, 1000, 0, 1000, 1000) EXCEPT !.zrest = 2000]>>,
                    \* not a closed planar contour
                    <<[MkContour(0, 1000, 0, 1000, 1000) EXCEPT !.type = "OPEN_PLANAR"]>>,
                    \* below the first slice
                    <<MkContour(0, 1000, 0, 1000, -1000)>>}
              ELSE {})

\* the ContourSequence of a ROI: absent, or a list of at most n contours
ContourSeqs(n) ==
    {[present |-> FALSE, contours |-> <<>>]}
        \cup {[present |-> TRUE, contours |-> cl] : cl \in ContourLists(n)}

\* the contour sequences of n ROIs with at most b contours in all
RECURSIVE RoiContourSeqs(_, _)
RoiContourSeqs(n, b) ==
    IF n = 0 THEN {<<>>}
    ELSE UNION {{<<cs>> \o rest : rest \in RoiContourSeqs(n - 1, b - Len(cs.contours))} :
                   cs \in ContourSeqs(b)}

\* the series the structure set was drawn on: three slices 1 mm apart
LabelSeries ==
    [i \in 1..3 |-> MkSlice(Mm(i - 1), BaseGeom, i, [slope |-> 1, icpt |-> -1024])]

\* np.zeros(shape, dtype=bool), indexed [z][x][y]
FalseMask(sx, sy, sz) ==
    [z \in 0..(sz - 1) |-> [x \in 0..(sx - 1) |-> [y \in 0..(sy - 1) |-> FALSE]]]

\* the 'skip if label not needed' test
LabelWanted(name, lab) ==
    \/ lab.kind = "all"
    \/ lab.kind = "list" /\ name \in lab.names
    \/ lab.kind = "str" /\ name \in lab.names

\* ceil(a / b) for b > 0
CeilDiv(a, b) == IF a >= 0 THEN (a + b - 1) \div b ELSE -((-a) \div b)

\* the integer coordinates i with lo <= off + i * sp <= hi that
\* skimage.draw.polygon scans: from max(0, min) to ceil(max)
AxisPixels(lo, hi, off, sp) ==
    LET last == CeilDiv(hi - off, sp)
    IN  {i \in 0..(IF last < 0 THEN -1 ELSE last) :
            lo - off <= i * sp /\ i * sp <= hi - off}

\* x_indices, y_indices = polygon(x_indices, y_indices), as a set of <<x, y>>
Polygon(c, sm) ==
    AxisPixels(c.x0, c.x1, sm.offx, sm.spx) \X AxisPixels(c.y0, c.y1, sm.offy, sm.spy)

\* z_idx = int(z_offset / summary['spacing-z'])
LabelZIdx(c, sm) == TruncDiv(c.z - sm.offz, sm.spz)

\* mutant: the contour is OR-ed into the plane instead of toggled
Toggle_mutOr(m, pixels, at) ==
    [m EXCEPT ![at] =
        [x \in DOMAIN m[at] |->
            [y \in DOMAIN m[at][x] |-> (<<x, y>> \in pixels) \/ m[at][x][y]]]]

\* data[x_indices, y_indices, z_idx] = np.invert(data[x_indices, y_indices, z_idx])
Toggle(m, pixels, at) ==
    [m EXCEPT ![at] =
        [x \in DOMAIN m[at] |->
            [y \in DOMAIN m[at][x] |->
                IF <<x, y>> \in pixels THEN ~m[at][x][y] ELSE m[at][x][y]]]]

RECURSIVE InsertSorted(_, _)
InsertSorted(sorted, e) ==
    IF sorted = <<>> THEN <<e>>
    ELSE IF NameRank(e.name) < NameRank(Head(sorted).name)
    THEN <<e>> \o sorted
    ELSE <<Head(sorted)>> \o InsertSorted(Tail(sorted), e)

\* sorted(label_pairs, key=lambda l: l[0]): a stable sort by name
RECURSIVE SortPairs(_)
SortPairs(ps) ==
    IF ps = <<>> THEN <<>>
    ELSE InsertSorted(SortPairs(SubSeq(ps, 1, Len(ps) - 1)), ps[Len(ps)])

\* the ROIs with the given contour sequences, named in ascending or
\* descending order
MkRois(cs, descending) ==
    [i \in 1..Len(cs) |->
        [name |-> RegionNames[IF descending THEN Len(cs) + 1 - i ELSE i],
         present |-> cs[i].present,
         contours |-> cs[i].contours]]

\* the calls of label_data on structure sets of at most b contours
InitLabelUpTo(b) ==
    /\ \/ /\ \E n \in 0..MaxRois, descending \in BOOLEAN :
                \E cs \in RoiContourSeqs(n, b) :
                    rois = MkRois(cs, descending)
          /\ cts = LabelSeries
       \/ /\ \E cs \in RoiContourSeqs(1, 1) : rois = MkRois(cs, FALSE)
          /\ cts = <<MkSlice(0, BaseGeom, 1, [slope |-> 1, icpt |-> -1024])>>
       \/ /\ \E c \in {Full0, Strip1, MkContour(0, 1000, 0, 1000, 2600)} :
                rois = MkRois(<<[present |-> TRUE, contours |-> <<c>>]>>, FALSE)
          \* slices at 0, 1 and 2.6 mm
          /\ cts = [i \in 1..3 |->
                       MkSlice(IF i = 3 THEN 2600 ELSE Mm(i - 1), BaseGeom, i,
                               [slope |-> 1, icpt |-> -1024])]
    /\ labels \in {[kind |-> "all", names |-> {}],
                   [kind |-> "str", names |-> {"Cord"}],
                   [kind |-> "list", names |-> {"Brain", "Lens"}]}
    /\ roiIdx = 0
    /\ conIdx = 0
    /\ mask = NoData
    /\ planes = <<>>
    /\ labelPairs = <<>>
    /\ logged = <<>>
    /\ IdleRest
    /\ ResolveIdle
    /\ NiftiIdle
    /\ DatasetIdle
    /\ LoadIdle
    /\ RtIdle
    /\ MapIdle

InitLabel == InitLabelUpTo(MaxContours)

\* label_data up to the loop over the ROIs
LabelBegin ==
    /\ pc = "idle"
    /\ summary' = CtSummary(cts)
    /\ IF summary'.ok
       THEN /\ pc' = "label_roi"
            /\ err' = ""
            /\ roiIdx' = 1
       ELSE /\ pc' = "label_error"
            /\ err' = summary'.err
            /\ roiIdx' = roiIdx
    /\ UNCHANGED <<cts, data, zidxs, geom, mapVars>>
    /\ UNCHANGED <<rois, labels, conIdx, mask, planes, labelPairs, logged>>
    /\ UNCHANGED <<loadVars, rtVars>>
    /\ UNCHANGED <<resolveVars, niftiVars, datasetVars>>

\* a ROI that is not wanted or has no contour sequence
LabelSkipRoi ==
    /\ pc = "label_roi"
    /\ roiIdx <= Len(rois)
    /\ ~LabelWanted(rois[roiIdx].name, labels)
          \/ ~rois[roiIdx].present
          \/ rois[roiIdx].contours = <<>>
    /\ roiIdx' = roiIdx + 1
    /\ UNCHANGED <<pc, err, ctVars, mapVars>>
    /\ UNCHANGED <<rois, labels, conIdx, mask, planes, labelPairs, logged>>
    /\ UNCHANGED <<loadVars, rtVars>>
    /\ UNCHANGED <<resolveVars, niftiVars, datasetVars>>

\* the label placeholder of a wanted ROI with contours
LabelStartRoi ==
    /\ pc = "label_roi"
    /\ roiIdx <= Len(rois)
    /\ LabelWanted(rois[roiIdx].name, labels)
    /\ rois[roiIdx].present
    /\ rois[roiIdx].contours # <<>>
    /\ mask' = FalseMask(summary.sizex, summary.sizey, summary.sizez)
    /\ planes' = <<>>
    /\ conIdx' = 1
    /\ pc' = "label_contour"
    /\ UNCHANGED <<err, ctVars, mapVars>>
    /\ UNCHANGED <<rois, labels, roiIdx, labelPairs, logged>>
    /\ UNCHANGED <<loadVars, rtVars>>
    /\ UNCHANGED <<resolveVars, niftiVars, datasetVars>>

\* one contour of the current ROI
LabelContour ==
    /\ pc = "label_contour"
    /\ conIdx <= Len(rois[roiIdx].contours)
    /\ LET c == rois[roiIdx].contours[conIdx]
           pixels == Polygon(c, summary)
           at == NumpyIndex(LabelZIdx(c, summary), summary.sizez)
       IN  /\ logged' = IF c.type # "CLOSED_PLANAR" THEN Append(logged, c.type)
                        ELSE logged
           /\ IF \/ at = -1
                 \/ \E p \in pixels : p[1] >= summary.sizex \/ p[2] >= summary.sizey
              THEN /\ pc' = "label_error"
                   /\ err' = "IndexError"
                   /\ UNCHANGED <<mask, planes, conIdx>>
              ELSE /\ mask' = Toggle(mask, pixels, at)
                   /\ planes' = Append(planes, at)
                   /\ conIdx' = conIdx + 1
                   /\ UNCHANGED <<pc, err>>
    /\ UNCHANGED <<ctVars, mapVars, rois, labels, roiIdx, labelPairs>>
    /\ UNCHANGED <<loadVars, rtVars>>
    /\ UNCHANGED <<resolveVars, niftiVars, datasetVars>>

\* label_pairs.append((name, data))
LabelAppend ==
    /\ pc = "label_contour"
    /\ conIdx > Len(rois[roiIdx].contours)
    /\ labelPairs' = Append(labelPairs,
          [name |-> rois[roiIdx].name, data |-> mask, roi |-> roiIdx,
           planes |-> planes])
    /\ roiIdx' = roiIdx + 1
    /\ pc' = "label_roi"
    /\ UNCHANGED <<err, ctVars, mapVars, rois, labels, conIdx, mask, planes, logged>>
    /\ UNCHANGED <<loadVars, rtVars>>
    /\ UNCHANGED <<resolveVars, niftiVars, datasetVars>>

\* mutant: the label pairs are returned in the order of the structure set
LabelReturn_mutUnsorted ==
    /\ pc = "label_roi"
    /\ roiIdx > Len(rois)
    /\ labelPairs' = labelPairs
    /\ pc' = "label_done"
    /\ UNCHANGED <<err, ctVars, mapVars, rois, labels, roiIdx, conIdx, mask, planes, logged>>
    /\ UNCHANGED <<loadVars, rtVars>>
    /\ UNCHANGED <<resolveVars, niftiVars, datasetVars>>

\* the sort by label name and the return
LabelReturn ==
    /\ pc = "label_roi"
    /\ roiIdx > Len(rois)
    /\ labelPairs' = SortPairs(labelPairs)
    /\ pc' = "label_done"
    /\ UNCHANGED <<err, ctVars, mapVars, rois, labels, roiIdx, conIdx, mask, planes, logged>>
    /\ UNCHANGED <<loadVars, rtVars>>
    /\ UNCHANGED <<resolveVars, niftiVars, datasetVars>>

NextLabel ==
    \/ LabelBegin
    \/ LabelSkipRoi
    \/ LabelStartRoi
    \/ LabelContour
    \/ LabelAppend
    \/ LabelReturn

SpecLabel == InitLabel /\ [][NextLabel]_vars

(***************************************************************************)
(* Region-name mapping: RegionMap.to_internal.                             *)
(*                                                                         *)
(* Names are sequences of characters.  A rule's pattern is a literal, so   *)
(* re.match(before, region) holds when the pattern is a prefix of the      *)
(* name, compared without case under re.IGNORECASE.                        *)
(***************************************************************************)
MaxRows == 3

\* priority = -np.inf
NegInf == -1000000

PatientIds == {"P1", "P2"}

\* the 'after' column, by row position
Canon == << <<"X">>, <<"Y">>, <<"Z">>, <<"W">>, <<"V">> >>

MkRule(before, case, excpt, only, hasPriority, priority) ==
    [before |-> before, case |-> case, except |-> excpt, only |-> only,
     hasPriority |-> hasPriority, priority |-> priority]

\* rules without their replacement; 'case' is "nan" for an empty cell
RuleKinds ==
    {MkRule(<<"a">>, "nan", {}, {}, FALSE, 0),
     MkRule(<<"a">>, "false", {}, {}, FALSE, 0),
     MkRule(<<"a">>, "true", {"P1"}, {}, FALSE, 0),
     MkRule(<<"a">>, "nan", {}, {"P1"}, FALSE, 0),
     MkRule(<<"a">>, "nan", {}, {}, TRUE, 1),
     MkRule(<<"a">>, "nan", {}, {}, TRUE, 2),
     MkRule(<<"a">>, "false", {"P1"}, {}, TRUE, 2),
     MkRule(<<"a", "b">>, "nan", {}, {"P2"}, TRUE, 1),
     MkRule(<<"b">>, "nan", {}, {}, FALSE, 0)}

Lower(ch) == IF ch = "A" THEN "a" ELSE IF ch = "B" THEN "b" ELSE ch

\* mutant: the 'except' list is not consulted
Applicable_mutNoExcept(row, pid) == ~(row.only # {} /\ pid \notin row.only)

\* the only/except tests: TRUE when the rule is not skipped for the patient
Applicable(row, pid) ==
    /\ pid \notin row.except
    /\ ~(row.only # {} /\ pid \notin row.only)

\* whether re.IGNORECASE is passed for the rule; hc: the table has a 'case' column
IgnoreCase(row, hc) ==
    IF hc THEN row.case # "nan" /\ row.case = "false" ELSE TRUE

\* re.match(row['before'], region, *args)
ReMatch(row, hc, reg) ==
    /\ Len(row.before) <= Len(reg)
    /\ \A i \in 1..Len(row.before) :
          IF IgnoreCase(row, hc)
          THEN Lower(row.before[i]) = Lower(reg[i])
          ELSE row.before[i] = reg[i]

\* mutant: a later rule with a priority always replaces the match
Outranks_mutAlways(p, best) == TRUE

\* row['priority'] > priority
Outranks(p, best) == p > best

\* re.compile of a rule's pattern: an unbalanced "(" is a malformed pattern
\* and makes re.match raise re.error
Compiles(pattern) == \A k \in 1..Len(pattern) : pattern[k] # "("

\* mutant: a match already found is kept
LaterMatch_mutKeepFirst(match, after) ==
    IF match.none THEN [none |-> FALSE, name |-> after] ELSE match

\* match = row['after'] of a matching rule without priority
LaterMatch(match, after) == [none |-> FALSE, name |-> after]

\* the loop of to_internal from row i on, with the match and priority so far
RECURSIVE ToInternalFrom(_, _, _, _, _, _, _)
ToInternalFrom(tbl, hc, reg, pid, i, match, priority) ==
    IF i > Len(tbl)
    THEN [ok |-> TRUE,
          name |-> IF match.none THEN reg ELSE match.name,
          priority |-> priority]
    ELSE LET row == tbl[i]
         IN  IF ~Applicable(row, pid)
             THEN ToInternalFrom(tbl, hc, reg, pid, i + 1, match, priority)
             ELSE IF ~Compiles(row.before)
             THEN Failure("re.error")
             ELSE IF ~ReMatch(row, hc, reg)
             THEN ToInternalFrom(tbl, hc, reg, pid, i + 1, match, priority)
             ELSE IF row.hasPriority
             THEN IF Outranks(row.priority, priority)
                  THEN ToInternalFrom(tbl, hc, reg, pid, i + 1,
                           [none |-> FALSE, name |-> row.after], row.priority)
                  ELSE ToInternalFrom(tbl, hc, reg, pid, i + 1, match, priority)
             ELSE ToInternalFrom(tbl, hc, reg, pid, i + 1,
                      LaterMatch(match, row.after), priority)

\* RegionMap.to_internal(region, pat_id)
ToInternal(tbl, hc, reg, pid) ==
    ToInternalFrom(tbl, hc, reg, pid, 1, [none |-> TRUE, name |-> <<>>], NegInf)

InitMap ==
    /\ \E n \in 0..MaxRows :
          \E ks \in [1..n -> RuleKinds] :
              table = [i \in 1..n |->
                  [before |-> ks[i].before, after |-> Canon[i], case |-> ks[i].case,
                   except |-> ks[i].except, only |-> ks[i].only,
                   hasPriority |-> ks[i].hasPriority, priority |-> ks[i].priority]]
    /\ hasCase \in BOOLEAN
    /\ region \in { <<"a">>, <<"A">>, <<"a", "b">> }
    /\ patId \in PatientIds
    /\ mapResult = [ok |-> FALSE]
    /\ cts = <<>>
    /\ IdleRest
    /\ ResolveIdle
    /\ NiftiIdle
    /\ DatasetIdle
    /\ LoadIdle
    /\ RtIdle
    /\ LabelIdle

\* a call of to_internal
ToInternalCall ==
    /\ pc = "idle"
    /\ mapResult' = ToInternal(table, hasCase, region, patId)
    /\ pc' = IF mapResult'.ok THEN "map_done" ELSE "map_error"
    /\ UNCHANGED <<err, ctVars, labelVars, table, hasCase, region, patId>>
    /\ UNCHANGED <<loadVars, rtVars>>
    /\ UNCHANGED <<resolveVars, niftiVars, datasetVars>>

NextMap == ToInternalCall

SpecMap == InitMap /\ [][NextMap]_vars

(***************************************************************************)
(* RegionMap.load: the CSV file of the rules is read with pandas and the   *)
(* 'except' and 'only' cells are converted to lists of patient ids.  A     *)
(* cell is "absent" when the file has no such column; otherwise pandas     *)
(* gives a NaN for an empty cell, a float when the column holds numbers    *)
(* and empty cells, an int when it holds integers only, and a str when it  *)
(* holds text.  'ids' is the content of the cell: the patient ids joined   *)
(* by commas for a str, the digits of the number otherwise.                *)
(***************************************************************************)
MaxFileRows == 2

MkCell(type, ids) == [type |-> type, ids |-> ids]

NanCell == MkCell("nan", <<>>)
AbsentCell == MkCell("absent", <<>>)

\* the cells pandas can give for one column: all absent, or none absent; an
\* int column holds ints only; floats and strs do not share a column
ColumnTypes(cells) ==
    /\ ("absent" \in cells => cells = {"absent"})
    /\ ("int" \in cells => cells = {"int"})
    /\ ~("float" \in cells /\ "str" \in cells)

Files(n) ==
    {rows \in [1..n -> [before : {<<"a">>, <<"a", "(">>},
                        except : {AbsentCell, NanCell, MkCell("str", <<"P1", "P2">>),
                                  MkCell("float", <<"7">>), MkCell("int", <<"7">>)},
                        only : {AbsentCell, NanCell, MkCell("str", <<"P1">>)}]] :
        /\ ColumnTypes({rows[i].except.type : i \in 1..n})
        /\ ColumnTypes({rows[i].only.type : i \in 1..n})}

\* split_fn fails on a value that is neither a float nor a str
Splits(cell) == cell.type # "int"

\* split_fn: [] for NaN, [str(int(e))] for a float, e.split(',') for a str;
\* a missing column gives [] for every row
SplitFn(cell) == {cell.ids[k] : k \in 1..Len(cell.ids)}

\* the rule table built from the rows of the file
LoadedTable(rows) ==
    [i \in 1..Len(rows) |->
        [before |-> rows[i].before, after |-> Canon[i], case |-> "nan",
         except |-> SplitFn(rows[i].except), only |-> SplitFn(rows[i].only),
         hasPriority |-> FALSE, priority |-> 0]]

\* RegionMap.load(filepath)
Load(f) ==
    IF ~f.exists THEN [ok |-> TRUE, none |-> TRUE, table |-> <<>>]
    ELSE IF \E i \in 1..Len(f.rows) : ~Splits(f.rows[i].except) \/ ~Splits(f.rows[i].only)
    THEN Failure("ValueError")
    ELSE [ok |-> TRUE, none |-> FALSE, table |-> LoadedTable(f.rows)]

InitLoad ==
    /\ \/ file = [exists |-> FALSE, rows |-> <<>>]
       \/ \E n \in 0..MaxFileRows : \E rows \in Files(n) :
              file = [exists |-> TRUE, rows |-> rows]
    /\ table = <<>>
    /\ hasCase = FALSE
    /\ region \in {<<"a">>, <<"b">>}
    /\ patId \in PatientIds
    /\ mapResult = [ok |-> FALSE]
    /\ cts = <<>>
    /\ IdleRest
    /\ ResolveIdle
    /\ NiftiIdle
    /\ DatasetIdle
    /\ LabelIdle
    /\ RtIdle

\* a call of RegionMap.load
LoadCall ==
    /\ pc = "idle"
    /\ LET r == Load(file)
       IN  /\ pc' = IF ~r.ok THEN "load_error" ELSE IF r.none THEN "load_none" ELSE "loaded"
           /\ err' = IF r.ok THEN err ELSE r.err
           /\ table' = IF r.ok THEN r.table ELSE table
    /\ UNCHANGED <<ctVars, labelVars, hasCase, region, patId, mapResult, loadVars, rtVars>>
    /\ UNCHANGED <<resolveVars, niftiVars, datasetVars>>

\* a call of to_internal on the loaded region map
LoadedToInternalCall ==
    /\ pc = "loaded"
    /\ mapResult' = ToInternal(table, hasCase, region, patId)
    /\ pc' = IF mapResult'.ok THEN "map_done" ELSE "map_error"
    /\ err' = IF mapResult'.ok THEN err ELSE mapResult'.err
    /\ UNCHANGED <<ctVars, labelVars, table, hasCase, region, patId, loadVars, rtVars>>
    /\ UNCHANGED <<resolveVars, niftiVars, datasetVars>>

NextLoad == LoadCall \/ LoadedToInternalCall

SpecLoad == InitLoad /\ [][NextLoad]_vars

(***************************************************************************)
(* RTSTRUCTSeries.region_names / region_data.  The structure set is a list *)
(* of ROIs; each has a source name (a sequence of characters, unique in    *)
(* the structure set) and is "nodata" (no contour data), "ok" or "bad"     *)
(* (rasterising it raises ValueError).  The series holds a region map      *)
(* (rows in 'table') or None.  A region name n[0] of region_names is the   *)
(* source name, a str, or what to_internal returned for it, a tuple        *)
(* (name, priority): a key is a record with the flag 'tuple'.              *)
(***************************************************************************)
MaxRtRois == 4

\* rows of the index of a study
MaxIndexRows == 3

\* files in the 'rtstruct' folder
MaxRtFiles == 2

\* objects of a NIFTI dataset
MaxIds == 4

\* the source names, in ascending order of Python's str comparison
SrcNames == << <<"A">>, <<"a">>, <<"a", "b">>, <<"b">>, <<"b", "a">>, <<"c">>, <<"c", "a">> >>

\* the structure sets of n ROIs, listed in ascending or descending order of name
Rtstructs(n) ==
    {[i \in 1..n |-> [name |-> SrcNames[IF descending THEN n + 1 - i ELSE i],
                      state |-> st[IF descending THEN n + 1 - i ELSE i]]] :
        st \in [1..n -> {"nodata", "ok", "bad"}], descending \in BOOLEAN}

\* the region map of the dataset: 'a...' is named X; 'ab...' is named Z for
\* patient P1 only; 'b...' is named Y except for patient P1
RtRegionMap ==
    << [before |-> <<"a">>, after |-> <<"X">>, case |-> "nan", except |-> {},
        only |-> {}, hasPriority |-> FALSE, priority |-> 0],
       [before |-> <<"a", "b">>, after |-> <<"Z">>, case |-> "nan", except |-> {},
        only |-> {"P1"}, hasPriority |-> FALSE, priority |-> 0],
       [before |-> <<"b">>, after |-> <<"Y">>, case |-> "nan", except |-> {"P1"},
        only |-> {}, hasPriority |-> TRUE, priority |-> 1] >>

\* the 'regions' argument: 'all', one name, or a list of names
RegionArgs ==
    {[kind |-> "all", names |-> {}],
     [kind |-> "str", names |-> {<<"a">>}],
     [kind |-> "str", names |-> {<<"X">>}],
     [kind |-> "list", names |-> {<<"a">>, <<"X">>}],
     [kind |-> "list", names |-> {<<"X">>}]}

\* the pat_id of a call of to_internal that passes none
NoPatient == "None"

\* RTSTRUCTConverter.get_roi_names(rtstruct)
GetRoiNames(rt) == [i \in 1..Len(rt) |-> rt[i].name]

\* RTSTRUCTConverter.has_roi_data(rtstruct, name)
HasRoiData(rt, n) == \E i \in 1..Len(rt) : rt[i].name = n /\ rt[i].state # "nodata"

\* RTSTRUCTConverter.get_roi_data(rtstruct, name, cts): the mask of the ROI,
\* or a ValueError
GetRoiData(rt, n) ==
    IF \E i \in 1..Len(rt) : rt[i].name = n /\ rt[i].state = "bad"
    THEN Failure("ValueError")
    ELSE [ok |-> TRUE, data |-> [maskOf |-> n]]

\* the order of the characters in use
Alphabet == <<"A", "V", "W", "X", "Y", "Z", "a", "b", "c">>

CharRank(ch) == CHOOSE i \in 1..Len(Alphabet) : Alphabet[i] = ch

\* a < b for two str
RECURSIVE StrLess(_, _)
StrLess(a, b) ==
    IF b = <<>> THEN FALSE
    ELSE IF a = <<>> THEN TRUE
    ELSE IF Head(a) # Head(b) THEN CharRank(Head(a)) < CharRank(Head(b))
    ELSE StrLess(Tail(a), Tail(b))

StrKey(n) == [tuple |-> FALSE, name |-> n, priority |-> NegInf]

\* self._region_map.to_internal(n[0]): the (match, priority) tuple, for no patient
MappedKey(tbl, hc, n) ==
    LET r == ToInternal(tbl, hc, n, NoPatient)
    IN  [tuple |-> TRUE, name |-> r.name, priority |-> r.priority]

\* regions == name[0], name[0] in regions: a str never equals a tuple
KeyIs(key, n) == ~key.tuple /\ key.name = n

\* a < b for two keys: str by str, tuples by name and then priority
KeyLess(a, b) ==
    \/ StrLess(a.name, b.name)
    \/ a.name = b.name /\ a.priority < b.priority

RECURSIVE InsertByKey(_, _)
InsertByKey(sorted, e) ==
    IF sorted = <<>> THEN <<e>>
    ELSE IF KeyLess(e.key, Head(sorted).key)
    THEN <<e>> \o sorted
    ELSE <<Head(sorted)>> \o InsertByKey(Tail(sorted), e)

\* sorted(...) of a list of entries by their key
RECURSIVE SortByKey(_)
SortByKey(es) ==
    IF es = <<>> THEN <<>>
    ELSE InsertByKey(SortByKey(SubSeq(es, 1, Len(es) - 1)), es[Len(es)])

\* the (internal, dataset) pairs of all ROIs, with or without data
NamePairs_mutNoFilter(rt) ==
    LET ns == GetRoiNames(rt)
    IN  SortByKey([i \in 1..Len(ns) |-> [key |-> StrKey(ns[i]), unmapped |-> ns[i]]])

\* the (internal, dataset) pairs of the ROIs with data, sorted by source name
NamePairs(rt) ==
    LET ns == GetRoiNames(rt)
        all == SortByKey([i \in 1..Len(ns) |-> [key |-> StrKey(ns[i]), unmapped |-> ns[i]]])
    IN  SelectSeq(all, LAMBDA p : HasRoiData(rt, p.unmapped))

\* names = [(self._region_map.to_internal(n[0]), n[1]) for n in names]
MapPairs(pairs, tbl, hc, args) ==
    IF args.useMapping /\ args.hasMap
    THEN [i \in 1..Len(pairs) |->
            [key |-> MappedKey(tbl, hc, pairs[i].unmapped), unmapped |-> pairs[i].unmapped]]
    ELSE pairs

\* np.setdiff1d(regions, names): the arrays are flattened to strings, so the
\* name inside a tuple counts
UnknownRegions(regions, pairs) ==
    {r \in regions : \A i \in 1..Len(pairs) : pairs[i].key.name # r}

\* the filter of region_names on the requested regions
FilterRequested(pairs, args, allow) ==
    IF args.regions.kind = "all" THEN [ok |-> TRUE, names |-> pairs]
    ELSE IF args.regions.kind = "str"
    THEN LET r == CHOOSE n \in args.regions.names : TRUE
             found == {i \in 1..Len(pairs) : KeyIs(pairs[i].key, r)}
         IN  IF found # {} THEN [ok |-> TRUE, names |-> <<pairs[SetMax(found)]>>]
             ELSE IF allow THEN [ok |-> TRUE, names |-> <<>>]
             ELSE Failure("ValueError")
    ELSE IF ~allow /\ UnknownRegions(args.regions.names, pairs) # {}
    THEN Failure("ValueError")
    ELSE [ok |-> TRUE,
          names |-> SelectSeq(pairs,
                       LAMBDA p : \E r \in args.regions.names : KeyIs(p.key, r))]

\* pd.DataFrame(map(lambda n: n[0], names), columns=['region']): rows that
\* are tuples of two values do not fit the one column
DataFrameFits(nms) == \A i \in 1..Len(nms) : ~nms[i].key.tuple

\* RTSTRUCTSeries.region_names(allow_unknown_regions, regions, use_mapping)
SeriesRegionNames(rt, tbl, hc, args, allow) ==
    LET r == FilterRequested(MapPairs(NamePairs(rt), tbl, hc, args), args, allow)
    IN  IF ~r.ok THEN r
        ELSE IF ~DataFrameFits(r.names) THEN Failure("ValueError")
        ELSE r

\* fn of region_data: the second filter on the requested regions
DataWanted(p, args) ==
    \/ args.regions.kind = "all"
    \/ \E r \in args.regions.names : KeyIs(p.key, r)

\* region_dict[name[0]] = data
DictSet(d, k, v) ==
    IF \E i \in 1..Len(d) : d[i].key = k
    THEN [i \in 1..Len(d) |-> IF d[i].key = k THEN [key |-> k, data |-> v] ELSE d[i]]
    ELSE Append(d, [key |-> k, data |-> v])

\* the two logging.error calls for a region that failed
LogFailure(lg, n) ==
    Append(Append(lg, <<"Caught error extracting data", n>>), <<"Error message", n>>)

InitRt ==
    /\ \E n \in 0..MaxRtRois : rtRois \in Rtstructs(n)
    /\ \E hm \in BOOLEAN, um \in BOOLEAN, rg \in RegionArgs :
          /\ hm \/ um
          /\ rtArgs = [regions |-> rg, useMapping |-> um, hasMap |-> hm,
                       allowUnknown |-> FALSE, includeUnmapped |-> FALSE]
          /\ table = IF hm THEN RtRegionMap ELSE <<>>
    /\ hasCase = FALSE
    /\ region = ""
    /\ patId = "P1"
    /\ mapResult = [ok |-> FALSE]
    /\ names = <<>>
    /\ nameIdx = 0
    /\ regionDict = <<>>
    /\ cts = <<>>
    /\ IdleRest
    /\ ResolveIdle
    /\ NiftiIdle
    /\ DatasetIdle
    /\ LoadIdle
    /\ LabelIdle

\* a call of region_names
RegionNamesCall ==
    /\ pc = "idle"
    /\ \E allow \in BOOLEAN, include \in BOOLEAN :
          LET r == SeriesRegionNames(rtRois, table, hasCase, rtArgs, allow)
          IN  /\ rtArgs' = [rtArgs EXCEPT !.allowUnknown = allow, !.includeUnmapped = include]
              /\ pc' = IF r.ok THEN "names_done" ELSE "names_error"
              /\ err' = IF r.ok THEN err ELSE r.err
              /\ names' = IF ~r.ok THEN names
                          ELSE [i \in 1..Len(r.names) |->
                                  [region |-> r.names[i].key,
                                   unmapped |-> IF include THEN r.names[i].unmapped
                                                ELSE <<>>]]
    /\ UNCHANGED <<ctVars, labelVars, mapVars, loadVars, rtRois, nameIdx, regionDict>>
    /\ UNCHANGED <<resolveVars, niftiVars, datasetVars>>

\* region_data up to the loop over the names
RegionDataBegin ==
    /\ pc = "idle"
    /\ LET r == SeriesRegionNames(rtRois, table, hasCase, rtArgs, FALSE)
       IN  IF ~r.ok
           THEN /\ pc' = "region_data_error"
                /\ err' = r.err
                /\ UNCHANGED <<names, nameIdx, regionDict>>
           ELSE /\ pc' = "region_data"
                /\ names' = SelectSeq(r.names, LAMBDA p : DataWanted(p, rtArgs))
                /\ nameIdx' = 1
                /\ regionDict' = <<>>
                /\ UNCHANGED err
    /\ UNCHANGED <<ctVars, labelVars, mapVars, loadVars, rtRois, rtArgs>>
    /\ UNCHANGED <<resolveVars, niftiVars, datasetVars>>

\* one pass of the loop of region_data
RegionDataStep ==
    /\ pc = "region_data"
    /\ nameIdx <= Len(names)
    /\ LET r == GetRoiData(rtRois, names[nameIdx].unmapped)
       IN  IF ~r.ok
           THEN /\ logged' = LogFailure(logged, names[nameIdx].unmapped)
                /\ UNCHANGED regionDict
           ELSE /\ regionDict' = DictSet(regionDict, names[nameIdx].key, r.data)
                /\ UNCHANGED logged
    /\ nameIdx' = nameIdx + 1
    /\ UNCHANGED <<pc, err, ctVars, mapVars, loadVars, rtRois, rtArgs, names>>
    /\ UNCHANGED <<resolveVars, niftiVars, datasetVars>>
    /\ UNCHANGED <<rois, labels, roiIdx, conIdx, mask, planes, labelPairs>>

\* the ordered dict of region_data
RegionDataReturn ==
    /\ pc = "region_data"
    /\ nameIdx > Len(names)
    /\ regionDict' = SortByKey(regionDict)
    /\ pc' = "region_data_done"
    /\ UNCHANGED <<err, ctVars, labelVars, mapVars, loadVars, rtRois, rtArgs, names, nameIdx>>
    /\ UNCHANGED <<resolveVars, niftiVars, datasetVars>>

NextRt == RegionNamesCall \/ RegionDataBegin \/ RegionDataStep \/ RegionDataReturn

SpecRt == InitRt /\ [][NextRt]_vars

(***************************************************************************)
(* The two functions that return regions in order of name: region_data,    *)
(* and label_data on structure sets of at most MaxRois contours.           *)
(***************************************************************************)
InitOrder == InitRt \/ InitLabelUpTo(MaxRois)

NextOrder == NextRt \/ NextLabel

SpecOrder == InitOrder /\ [][NextOrder]_vars

(***************************************************************************)
(* Series resolution: CTSeries.__init__ / get_cts, DicomPatient.get_rtstruct *)
(* and RTSTRUCTSeries.__init__.  The index of a study has one row per file:  *)
(* its modality, its series id and the file, given by the z position of its  *)
(* ImagePositionPatient.  The 'rtstruct' folder is given by whether it       *)
(* exists and by the number of files in it.                                  *)
(***************************************************************************)
SeriesIds == {"s1", "s2"}

IndexRows == [modality : {"CT", "RTSTRUCT"}, series : SeriesIds, z : {Mm(0), Mm(1), Mm(2)}]

\* index[(index.modality == 'CT') & (index['series-id'] == id)]
SeriesIndex(idx, id) ==
    SelectSeq(idx, LAMBDA r : r.modality = "CT" /\ r.series = id)

\* insertion of a file into a list sorted by z, after the files of equal z
RECURSIVE InsertByZ(_, _)
InsertByZ(fs, f) ==
    IF fs = <<>> THEN <<f>>
    ELSE IF fs[Len(fs)].z <= f.z THEN Append(fs, f)
    ELSE Append(InsertByZ(SubSeq(fs, 1, Len(fs) - 1), f), fs[Len(fs)])

\* sorted(cts, key=lambda c: c.ImagePositionPatient[2])
RECURSIVE SortByZ(_)
SortByZ(fs) ==
    IF fs = <<>> THEN <<>>
    ELSE InsertByZ(SortByZ(SubSeq(fs, 1, Len(fs) - 1)), fs[Len(fs)])

InitResolve ==
    /\ \/ /\ index \in SeqsUpTo(IndexRows, MaxIndexRows)
          /\ rtstructDir = [exists |-> FALSE, files |-> 0]
       \/ /\ index = <<>>
          /\ rtstructDir \in {[exists |-> FALSE, files |-> 0]}
                                \cup {[exists |-> TRUE, files |-> n] : n \in 0..MaxRtFiles}
    /\ seriesId \in SeriesIds
    /\ resolved = [kind |-> "none", cts |-> <<>>]
    /\ cts = <<>>
    /\ IdleRest
    /\ LabelIdle
    /\ MapIdle
    /\ LoadIdle
    /\ RtIdle
    /\ NiftiIdle
    /\ DatasetIdle

\* CTSeries(study, id)
CTSeriesInit ==
    /\ pc = "idle"
    /\ IF Len(SeriesIndex(index, seriesId)) = 0
       THEN /\ pc' = "ctseries_error"
            /\ err' = "ValueError"
       ELSE /\ pc' = "ctseries_ready"
            /\ err' = err
    /\ resolved' = resolved
    /\ UNCHANGED <<ctVars, labelVars, mapVars, loadVars, rtVars, niftiVars, datasetVars,
                   index, seriesId, rtstructDir>>

\* CTSeries.get_cts() of a constructed series
GetCts ==
    /\ pc = "ctseries_ready"
    /\ pc' = "get_cts_done"
    /\ resolved' = [kind |-> "cts", cts |-> SortByZ(SeriesIndex(index, seriesId))]
    /\ err' = err
    /\ UNCHANGED <<ctVars, labelVars, mapVars, loadVars, rtVars, niftiVars, datasetVars,
                   index, seriesId, rtstructDir>>

\* DicomPatient.get_rtstruct(): os.listdir fails on a missing folder
PatientGetRtstruct_mutAtLeastOne ==
    /\ pc = "idle"
    /\ IF ~rtstructDir.exists
       THEN /\ pc' = "get_rtstruct_error"
            /\ err' = "FileNotFoundError"
            /\ resolved' = resolved
       ELSE IF rtstructDir.files < 1
       THEN /\ pc' = "get_rtstruct_error"
            /\ err' = "ValueError"
            /\ resolved' = resolved
       ELSE /\ pc' = "get_rtstruct_done"
            /\ err' = err
            /\ resolved' = [kind |-> "rtstruct", cts |-> <<>>]
    /\ UNCHANGED <<ctVars, labelVars, mapVars, loadVars, rtVars, niftiVars, datasetVars,
                   index, seriesId, rtstructDir>>

PatientGetRtstruct ==
    /\ pc = "idle"
    /\ IF ~rtstructDir.exists
       THEN /\ pc' = "get_rtstruct_error"
            /\ err' = "FileNotFoundError"
            /\ resolved' = resolved
       ELSE IF rtstructDir.files # 1
       THEN /\ pc' = "get_rtstruct_error"
            /\ err' = "ValueError"
            /\ resolved' = resolved
       ELSE /\ pc' = "get_rtstruct_done"
            /\ err' = err
            /\ resolved' = [kind |-> "rtstruct", cts |-> <<>>]
    /\ UNCHANGED <<ctVars, labelVars, mapVars, loadVars, rtVars, niftiVars, datasetVars,
                   index, seriesId, rtstructDir>>

\* RTSTRUCTSeries(dataset, pat_id, id): after the checks of the folder the
\* referenced CT series is constructed, which succeeds or raises
RTSTRUCTSeriesInit ==
    /\ pc = "idle"
    /\ IF ~rtstructDir.exists \/ rtstructDir.files # 1
       THEN /\ pc' = "rtseries_error"
            /\ err' = "ValueError"
       ELSE \E refCtFound \in BOOLEAN :
               IF refCtFound
               THEN /\ pc' = "rtseries_ready"
                    /\ err' = err
               ELSE /\ pc' = "rtseries_error"
                    /\ err' = "ValueError"
    /\ resolved' = resolved
    /\ UNCHANGED <<ctVars, labelVars, mapVars, loadVars, rtVars, niftiVars, datasetVars,
                   index, seriesId, rtstructDir>>

NextResolve == CTSeriesInit \/ GetCts \/ PatientGetRtstruct \/ RTSTRUCTSeriesInit

SpecResolve == InitResolve /\ [][NextResolve]_vars

(***************************************************************************)
(* process_nifti: the partition of the objects of a dataset.  The objects   *)
(* are numbered; np.random.shuffle leaves them in some order.  Proportions  *)
(* are given in tenths, so floor(p * n) is (tenths * n) \div 10.             *)
(***************************************************************************)

\* the orders np.random.shuffle can leave a list in
Shuffles(l) ==
    {q \in [1..Len(l) -> {l[i] : i \in 1..Len(l)}] :
        \A i, j \in 1..Len(l) : i # j => q[i] # q[j]}

\* int(np.floor(p * len(ids)))
FloorOf(tenths, n) == (tenths * n) \div 10

\* l[a:b] for 0 <= a
Slice(l, a, b) ==
    LET hi == IF b < Len(l) THEN b ELSE Len(l)
    IN  IF a >= hi THEN <<>> ELSE SubSeq(l, a + 1, hi)

\* lines 52-63: the branch on p_test is overridden by lines 59-60
PartitionIds(l, p) ==
    LET num_train == FloorOf(p.train, Len(l))
        num_validation == FloorOf(p.validation, Len(l))
    IN  [train |-> Slice(l, 0, num_train),
         validation |-> Slice(l, num_train, num_train + num_validation),
         test |-> Slice(l, num_train + num_validation, Len(l))]

InitNifti ==
    /\ objectIds \in {[i \in 1..n |-> i] : n \in 0..MaxIds}
    \* (p_train, p_validation, p_test) in tenths, the defaults first
    /\ proportions \in {[train |-> 6, validation |-> 2, test |-> 2],
                        [train |-> 7, validation |-> 1, test |-> 2],
                        [train |-> 5, validation |-> 3, test |-> 2],
                        [train |-> 6, validation |-> 4, test |-> 0],
                        [train |-> 5, validation |-> 5, test |-> 0],
                        [train |-> 10, validation |-> 0, test |-> 0]}
    /\ partitions = [train |-> <<>>, validation |-> <<>>, test |-> <<>>]
    /\ cts = <<>>
    /\ IdleRest
    /\ LabelIdle
    /\ MapIdle
    /\ LoadIdle
    /\ RtIdle
    /\ ResolveIdle
    /\ DatasetIdle

\* process_nifti(dataset, p_test, p_train, p_validation): the objects are
\* shuffled, partitioned and written to their partitions
ProcessNifti ==
    /\ pc = "idle"
    /\ \E shuffled \in Shuffles(objectIds) :
          /\ objectIds' = shuffled
          /\ partitions' = PartitionIds(shuffled, proportions)
    /\ pc' = "nifti_done"
    /\ UNCHANGED <<err, ctVars, labelVars, mapVars, loadVars, rtVars, resolveVars,
                   datasetVars, proportions>>

NextNifti == ProcessNifti

SpecNifti == InitNifti /\ [][NextNifti]_vars

(***************************************************************************)
(* The active dataset of mymi.dataset: select and the module-level queries, *)
(* which delegate to the active dataset.  'datasets' holds the names that   *)
(* have a folder under DATASETS_PATH.                                       *)
(***************************************************************************)
DatasetNames == {DEFAULT_ACTIVE, "D1", "D2"}

\* DicomDataset(name): the dataset object of that name
DicomDataset(name) == name

InitDataset ==
    /\ datasets \in SUBSET DatasetNames
    /\ active = DicomDataset(DEFAULT_ACTIVE)
    /\ selectArg = ""
    /\ answered = [query |-> "", by |-> ""]
    /\ cts = <<>>
    /\ IdleRest
    /\ LabelIdle
    /\ MapIdle
    /\ LoadIdle
    /\ RtIdle
    /\ ResolveIdle
    /\ NiftiIdle

\* select(name) that activates whatever name it is given
Select_mutNoCheck ==
    \E name \in DatasetNames :
        /\ selectArg' = name
        /\ active' = DicomDataset(name)
        /\ pc' = "select_done"
        /\ err' = ""
        /\ answered' = answered
        /\ UNCHANGED <<ctVars, labelVars, mapVars, loadVars, rtVars, resolveVars,
                       niftiVars, datasets>>

\* select(name)
Select ==
    \E name \in DatasetNames :
        /\ selectArg' = name
        /\ IF name \in datasets
           THEN /\ active' = DicomDataset(name)
                /\ pc' = "select_done"
                /\ err' = ""
           ELSE /\ active' = active
                /\ pc' = "select_error"
                /\ err' = "ValueError"
        /\ answered' = answered
        /\ UNCHANGED <<ctVars, labelVars, mapVars, loadVars, rtVars, resolveVars,
                       niftiVars, datasets>>

\* ct_summary(...), patient(...), list_patients(): return active.<query>(...)
Query ==
    \E q \in {"ct_summary", "patient", "list_patients"} :
        /\ answered' = [query |-> q, by |-> active]
        /\ pc' = "query_done"
        /\ err' = ""
        /\ UNCHANGED <<active, selectArg>>
        /\ UNCHANGED <<ctVars, labelVars, mapVars, loadVars, rtVars, resolveVars,
                       niftiVars, datasets>>

NextDataset == Select \/ Query

SpecDataset == InitDataset /\ [][NextDataset]_vars

(***************************************************************************)
(* Properties of the CT specification.                                     *)
(*                                                                         *)
(* The right-hand sides below are stated from the inputs alone, with       *)
(* their own notions of "nearest" and "smallest gap".                      *)
(***************************************************************************)
\* the integer nearest to a / b (a >= 0, b > 0), the even one of two
Nearest(a, b) ==
    CHOOSE n \in 0..((a \div b) + 1) :
        \/ 2 * Abs(a - n * b) < b
        \/ 2 * Abs(a - n * b) = b /\ n % 2 = 0

\* the smallest distance between two slices of the series
MinGap(s) == SetMin({Abs(s[j].z - s[i].z) : i \in 1..Len(s), j \in 1..Len(s)} \ {0})

\* the slice positions relative to the lowest one, in mm, when integral
RelativeMm(s) == [i \in 1..Len(s) |-> (s[i].z - s[1].z) \div Mm(1)]

OnMmGrid(s) == \A i \in 1..Len(s) : (s[i].z - s[1].z) % Mm(1) = 0

InPlaneFields == {"offset-x", "offset-y", "size-x", "size-y", "spacing-x", "spacing-y"}

DifferingFields(s) ==
    {f \in InPlaneFields :
        \E i \in 1..Len(s), j \in 1..Len(s) : FieldOf(s[i], f) # FieldOf(s[j], f)}

AnyTwoDiffer(s) == DifferingFields(s) # {}

\* C2: the spacing-z reported by ct_summary is the smallest gap between
\* consecutive sorted slice positions, rounded to 2 decimals; positions
\* [0, 1, 3, 4] mm give 1 mm.
C2_SpacingIsRoundedMinGap ==
    pc = "summary_done" =>
        /\ summary.spz = 10 * Nearest(MinGap(cts), 10)
        /\ (OnMmGrid(cts) /\ RelativeMm(cts) = <<0, 1, 3, 4>>) => summary.spz = Mm(1)

C2_Witness ==
    /\ pc = "summary_done"
    /\ OnMmGrid(cts)
    /\ RelativeMm(cts) = <<0, 1, 3, 4>>
    /\ summary.spz = Mm(1)

\* C3: ct_summary reports size-z = round(fov_z / spacing_z) + 1 with
\* fov_z = max z - min z, and num-missing = size-z - number of slices; ten
\* 1 mm positions without the one at index 5 give size-z 10, num-missing 1.
C3_SizeAndMissing ==
    pc = "summary_done" =>
        /\ summary.fovz = cts[Len(cts)].z - cts[1].z
        /\ summary.sizez = Nearest(cts[Len(cts)].z - cts[1].z, summary.spz) + 1
        /\ summary.missing = summary.sizez - Len(cts)
        /\ (OnMmGrid(cts) /\ RelativeMm(cts) = <<0, 1, 2, 3, 4, 6, 7, 8, 9>>)
               => summary.sizez = 10 /\ summary.missing = 1

C3_Witness ==
    /\ pc = "summary_done"
    /\ OnMmGrid(cts)
    /\ RelativeMm(cts) = <<0, 1, 2, 3, 4, 6, 7, 8, 9>>
    /\ summary.sizez = 10
    /\ summary.missing = 1

\* C4: whenever ct_summary returns, size-z is at least the number of
\* slices, so num-missing is never negative.
C4_MissingNeverNegative ==
    pc = "summary_done" => summary.sizez >= Len(cts) /\ summary.missing >= 0

\* C5: ct_data writes every slice, rescaled and transposed, at z index
\* round((slice_z - offset_z) / spacing_z); no two slices share an index,
\* and the planes never written number size-z minus the number of slices.
C5_SlicesPlacedOncePerPlane ==
    pc = "ct_data_done" =>
        /\ \A i \in 1..Len(cts) :
              /\ zidxs[i] = Nearest(cts[i].z - summary.offz, summary.spz)
              /\ \A x \in 0..(summary.sizex - 1), y \in 0..(summary.sizey - 1) :
                    data[zidxs[i]][x][y]
                        = PixelArray(cts[i])[y][x] * cts[i].slope + cts[i].icpt
        /\ \A i \in 1..Len(cts), j \in 1..Len(cts) : i # j => zidxs[i] # zidxs[j]
        /\ Cardinality({z \in 0..(summary.sizez - 1) : z \notin SeqRange(zidxs)})
              = summary.sizez - Len(cts)

\* C6: a slice whose computed z index is outside [0, size.z) makes the
\* reconstruction fail; it is never written into a plane of the volume.
C6_OutOfRangeIndexFails ==
    /\ pc \in {"ct_data", "ct_data_done"} =>
          \A i \in 1..Len(zidxs) : zidxs[i] >= 0 /\ zidxs[i] < summary.sizez
    /\ pc \in {"series_data", "series_data_done"} =>
          \A i \in 1..Len(zidxs) : zidxs[i] >= 0 /\ zidxs[i] < geom.size[3]

\* C7: ct_summary fails naming a differing field, and returns no geometry,
\* whenever two slices differ in x/y offset, in-plane size or pixel spacing;
\* without such a difference it never reports an inconsistency, and the
\* offset-z it reports is the lowest slice position (it reports one unless
\* the series has fewer than 2 slices or a smallest gap that rounds to 0).
C7_InconsistentGeometryFails ==
    pc \in {"summary_done", "summary_error"} =>
        /\ AnyTwoDiffer(cts) =>
              /\ pc = "summary_error"
              /\ ~summary.ok
              /\ err \in DifferingFields(cts)
        /\ ~AnyTwoDiffer(cts) =>
              \/ /\ pc = "summary_done"
                 /\ summary.offz = SetMin({cts[i].z : i \in 1..Len(cts)})
              \/ /\ pc = "summary_error"
                 /\ err \notin InPlaneFields
                 /\ Len(cts) < 2 \/ 10 * Nearest(MinGap(cts), 10) = 0

C7_Witness ==
    /\ pc = "summary_error"
    /\ Len(cts) = 3
    /\ cts[1].py = cts[2].py
    /\ cts[3].py # cts[1].py
    /\ cts[3].sy # cts[1].sy
    /\ err = "size-y"

\* C8: on a series of fewer than 2 slices, ct_summary, ct_data,
\* CTSeries.spacing and CTSeries.data fail: no z spacing, geometry or
\* volume is returned.
C8_FewerThanTwoSlicesFails ==
    Len(cts) < 2 =>
        /\ pc \in {"idle", "summary_error", "ct_data_error",
                   "spacing_error", "series_data_error"}
        /\ ~summary.ok
        /\ ~geom.ok
        /\ data = NoData

C8_Witness ==
    /\ Len(cts) = 1
    /\ pc = "spacing_error"
    /\ err = "IndexError"

(***************************************************************************)
(* Properties of the label specification.                                  *)
(***************************************************************************)
\* the contour covers voxel column (x, y): the voxel position lies within
\* the sides of the rectangle
Covers(c, x, y, sm) ==
    /\ c.x0 <= sm.offx + x * sm.spx
    /\ sm.offx + x * sm.spx <= c.x1
    /\ c.y0 <= sm.offy + y * sm.spy
    /\ sm.offy + y * sm.spy <= c.y1

\* the contours of a processed region that lie on plane z and cover (x, y)
CoveringContours(lp, x, y, z) ==
    {i \in 1..Len(rois[lp.roi].contours) :
        lp.planes[i] = z /\ Covers(rois[lp.roi].contours[i], x, y, summary)}

AllFalse(m) ==
    \A z \in DOMAIN m : \A x \in DOMAIN m[z] : \A y \in DOMAIN m[z][x] : ~m[z][x][y]

\* C1: a voxel of a region's mask is true iff an odd number of the region's
\* contours on its plane cover it; a region made of the same contour twice
\* has an empty mask.
C1_OddCoverage ==
    \A k \in 1..Len(labelPairs) :
        LET lp == labelPairs[k]
        IN  /\ \A z \in 0..(summary.sizez - 1), x \in 0..(summary.sizex - 1),
                  y \in 0..(summary.sizey - 1) :
                    lp.data[z][x][y] <=> (Cardinality(CoveringContours(lp, x, y, z)) % 2 = 1)
            /\ (/\ Len(rois[lp.roi].contours) = 2
                /\ rois[lp.roi].contours[1] = rois[lp.roi].contours[2])
                  => AllFalse(lp.data)

C1_Witness ==
    /\ pc = "label_done"
    /\ Len(labelPairs) = 2
    /\ \E k \in 1..Len(labelPairs) :
          /\ rois[labelPairs[k].roi].contours = <<Full0, Full0>>
          /\ AllFalse(labelPairs[k].data)
    /\ \E k \in 1..Len(labelPairs) :
          /\ rois[labelPairs[k].roi].contours = <<Strip1>>
          /\ labelPairs[k].data[1][0][1]
          /\ ~labelPairs[k].data[0][0][1]

(***************************************************************************)
(* Properties of the mapping specification.                                *)
(***************************************************************************)
\* the rule is to be ignored for the patient
Ignored(row, pid) ==
    \/ pid \in row.except
    \/ row.only # {} /\ pid \notin row.only

\* the table without the rules to be ignored for the patient
RECURSIVE WithoutIgnored(_, _)
WithoutIgnored(tbl, pid) ==
    IF tbl = <<>> THEN <<>>
    ELSE IF Ignored(Head(tbl), pid) THEN WithoutIgnored(Tail(tbl), pid)
    ELSE <<Head(tbl)>> \o WithoutIgnored(Tail(tbl), pid)

\* C9: to_internal ignores the rules whose 'except' holds the patient and
\* those whose non-empty 'only' does not: the result is that of the table
\* without them; if every rule matching the name excepts the patient, the
\* name is returned unchanged.
C9_SkippedRulesIgnored ==
    pc = "map_done" =>
        /\ mapResult = ToInternal(WithoutIgnored(table, patId), hasCase, region, patId)
        /\ (\A i \in 1..Len(table) :
               ReMatch(table[i], hasCase, region) => patId \in table[i].except)
              => mapResult.name = region

C9_Witness ==
    /\ pc = "map_done"
    /\ patId = "P1"
    /\ Len(table) = 2
    /\ ReMatch(table[1], hasCase, region) /\ "P1" \in table[1].except
    /\ ~ReMatch(table[2], hasCase, region)
    /\ mapResult.name = region

\* the rows that are applicable to the patient and match the name
Matching(tbl) ==
    {i \in 1..Len(tbl) : ~Ignored(tbl[i], patId) /\ ReMatch(tbl[i], hasCase, region)}

Swap(tbl, i, j) == [tbl EXCEPT ![i] = tbl[j], ![j] = tbl[i]]

\* C10: when exactly two applicable rules match and carry different
\* priorities, the replacement of the higher one is returned, also with the
\* two rows swapped.
C10_HigherPriorityWins ==
    pc = "map_done" =>
        \A i \in 1..Len(table), j \in 1..Len(table) :
            (/\ Matching(table) = {i, j}
             /\ table[i].hasPriority /\ table[j].hasPriority
             /\ table[i].priority > table[j].priority)
            => /\ mapResult.name = table[i].after
               /\ ToInternal(Swap(table, i, j), hasCase, region, patId).name = table[i].after

C10_Witness ==
    /\ pc = "map_done"
    /\ Len(table) = 3
    /\ Matching(table) = {1, 3}
    /\ table[1].hasPriority /\ table[3].hasPriority
    /\ table[1].priority = 2 /\ table[3].priority = 1
    /\ mapResult.name = table[1].after

\* the matching rows that carry a numeric priority
Prioritised(tbl) == {i \in Matching(tbl) : tbl[i].hasPriority}

\* the rows of highest priority among the matching rows with a priority
TopPriority(tbl) ==
    {i \in Prioritised(tbl) :
        \A j \in Prioritised(tbl) : tbl[j].priority <= tbl[i].priority}

\* C11: when at least one applicable matching rule carries a priority, the
\* returned name is the replacement of a matching rule of highest priority,
\* whatever matching rules without priority stand before or after it.
C11_PriorityBeatsUnprioritised ==
    (pc = "map_done" /\ Prioritised(table) # {}) =>
        \E i \in TopPriority(table) : mapResult.name = table[i].after

\* C12: when several applicable rules match and none of them carries a
\* priority, the replacement of the last matching row of the table is returned.
C12_LastUnprioritisedWins ==
    (pc = "map_done" /\ Matching(table) # {} /\ Prioritised(table) = {}) =>
        mapResult.name = table[SetMax(Matching(table))].after

C12_Witness ==
    /\ pc = "map_done"
    /\ Len(table) = 3
    /\ Matching(table) = {1, 2}
    /\ Prioritised(table) = {}
    /\ mapResult.name = table[2].after
    /\ mapResult.name # table[1].after

\* the row whose replacement was returned (replacements are distinct per row)
Winners(tbl) == {i \in Matching(tbl) : mapResult.name = tbl[i].after}

\* C13: when no applicable rule matches, the name is returned unchanged with
\* the 'none' priority, and that priority is also what is returned whenever
\* a rule without priority wins.
C13_NoMatchGivesNonePriority ==
    pc = "map_done" =>
        /\ Matching(table) = {} =>
               mapResult.name = region /\ mapResult.priority = NegInf
        /\ \A i \in Winners(table) :
               ~table[i].hasPriority => mapResult.priority = NegInf

\* C14: a rule file holding a pattern that does not compile is rejected by
\* RegionMap.load; to_internal on a loaded table never fails and leaves the
\* rule table as it was loaded.
C14_MalformedRejectedAtLoad ==
    /\ pc = "loaded" => \A i \in 1..Len(table) : Compiles(table[i].before)
    /\ pc # "map_error"
    /\ pc \in {"map_done", "map_error"} => table = LoadedTable(file.rows)

\* C15: label_data rasterises every contour into the plane
\* round((z - offset-z) / spacing-z); a contour at 1.6 mm goes to plane 2.
C15_ContourPlaneIsRounded ==
    \A i \in 1..Len(labelPairs) :
        \A k \in 1..Len(labelPairs[i].planes) :
            labelPairs[i].planes[k] =
                RoundDiv(rois[labelPairs[i].roi].contours[k].z - summary.offz, summary.spz)

Planar(c) == c.zrest = c.z

\* C16: a contour whose vertices do not share one z makes label_data fail;
\* it is never rasterised into the plane of its first vertex.
C16_NonPlanarContourFails ==
    /\ pc = "label_contour" =>
           \A k \in 1..Len(planes) : Planar(rois[roiIdx].contours[k])
    /\ \A i \in 1..Len(labelPairs) :
           \A k \in 1..Len(labelPairs[i].planes) :
               Planar(rois[labelPairs[i].roi].contours[k])

(***************************************************************************)
(* Properties of the RTSTRUCT series specification.                        *)
(***************************************************************************)
MappingInUse == rtArgs.useMapping /\ rtArgs.hasMap

\* the name a region goes by: its canonical name when the map is in use
CanonName(n) ==
    IF MappingInUse THEN ToInternal(table, hasCase, n, patId).name ELSE n

\* the ROIs of the structure set that carry contour data
WithData == {i \in 1..Len(rtRois) : rtRois[i].state # "nodata"}

PatientRegions == {CanonName(rtRois[i].name) : i \in WithData}

Requested == rtArgs.regions.names

ReturnedNames == {names[i].region.name : i \in 1..Len(names)}

\* C17: region_names asked for one region or a list of which at least one
\* is not a region of the patient raises an error unless
\* allow_unknown_regions is set; if it is set, it raises no error and
\* returns exactly the requested regions that the patient has.
C17_UnknownRegions ==
    (/\ pc \in {"names_done", "names_error"}
     /\ rtArgs.regions.kind # "all"
     /\ Requested \ PatientRegions # {})
    => IF rtArgs.allowUnknown
       THEN pc = "names_done" /\ ReturnedNames = Requested \cap PatientRegions
       ELSE pc = "names_error"

\* C18: region_names returns the names of the ROIs with contour data, each
\* by its canonical name when the map is in use, restricted to the
\* requested names unless 'all' is asked; with the map in use, asking for
\* a canonical name that the patient has returns it.
C18_ReturnedRegionNames ==
    /\ pc = "names_done" =>
           ReturnedNames = IF rtArgs.regions.kind = "all" THEN PatientRegions
                           ELSE Requested \cap PatientRegions
    /\ (/\ pc \in {"names_done", "names_error"}
        /\ MappingInUse
        /\ rtArgs.regions.kind = "str"
        /\ Requested \subseteq PatientRegions)
       => pc = "names_done" /\ ReturnedNames = Requested

\* C19: region_data returns its regions in ascending order of name and
\* label_data its pairs in ascending order of name, whatever the order of
\* the ROIs in the structure set.
C19_AscendingByName ==
    /\ pc = "region_data_done" =>
           \A i \in 1..Len(regionDict), j \in 1..Len(regionDict) :
               i < j => StrLess(regionDict[i].key.name, regionDict[j].key.name)
    /\ pc = "label_done" =>
           \A i \in 1..Len(labelPairs), j \in 1..Len(labelPairs) :
               i < j => NameRank(labelPairs[i].name) <= NameRank(labelPairs[j].name)

C19_Witness ==
    /\ pc = "region_data_done"
    /\ Len(rtRois) = 4
    /\ rtRois[1].name = SrcNames[4]
    /\ Len(regionDict) = 3
    /\ regionDict[1].key.name = SrcNames[1]
    /\ regionDict[3].key.name = SrcNames[4]

\* the ROIs that region_data is asked for
Selected ==
    {i \in WithData :
        rtArgs.regions.kind = "all" \/ CanonName(rtRois[i].name) \in Requested}

\* C20: when rasterising some of the selected regions fails, region_data
\* still returns; its result holds exactly the selected regions that were
\* rasterised, and one error is logged per failed region.
C20_FailedRegionsDropped ==
    /\ pc = "region_data_error" => nameIdx = 0
    /\ pc = "region_data_done" =>
           /\ {regionDict[k].key.name : k \in 1..Len(regionDict)}
                 = {CanonName(rtRois[i].name) : i \in {j \in Selected : rtRois[j].state = "ok"}}
           /\ Len(logged) = Cardinality({j \in Selected : rtRois[j].state = "bad"})

\* C24: the z component of CTSeries.spacing is the smallest gap between
\* consecutive sorted slice positions, for every series of at least two
\* slices; positions [0, 2, 3] give 1.
C24_SeriesSpacingIsMinGap ==
    (pc = "spacing_done" /\ Len(cts) >= 2) => geom.spacing[3] = MinGap(cts)

\* the contours of a processed region that are closed, lie on plane z and
\* cover (x, y)
ClosedCovering(lp, x, y, z) ==
    {i \in CoveringContours(lp, x, y, z) :
        rois[lp.roi].contours[i].type = "CLOSED_PLANAR"}

\* C23: a contour that is not CLOSED_PLANAR is reported and changes no
\* voxel: the mask of a region is the one its CLOSED_PLANAR contours give.
C23_OnlyClosedPlanarRasterised ==
    \A k \in 1..Len(labelPairs) :
        LET lp == labelPairs[k]
        IN  /\ \A z \in 0..(summary.sizez - 1), x \in 0..(summary.sizex - 1),
                  y \in 0..(summary.sizey - 1) :
                    lp.data[z][x][y] <=> (Cardinality(ClosedCovering(lp, x, y, z)) % 2 = 1)
            /\ \A i \in 1..Len(rois[lp.roi].contours) :
                    rois[lp.roi].contours[i].type # "CLOSED_PLANAR"
                        => \E j \in 1..Len(logged) : logged[j] = rois[lp.roi].contours[i].type

\* the planes a contour can be said to lie on: the truncated and the
\* rounded index of its z, when inside the volume
OwnPlanes(c, sm) ==
    {TruncDiv(c.z - sm.offz, sm.spz), RoundDiv(c.z - sm.offz, sm.spz)}
        \cap (0..(sm.sizez - 1))

\* C26: a contour drawn at the z position of a CT slice is rasterised into
\* the plane into which ct_data writes that slice, also when the slices
\* are irregularly spaced.
C26_MaskAlignedWithVolume ==
    \A k \in 1..Len(labelPairs) :
        LET lp == labelPairs[k]
        IN  \A i \in 1..Len(lp.planes), j \in 1..Len(cts) :
                rois[lp.roi].contours[i].z = cts[j].z
                    => lp.planes[i] = CtZIdx(cts[j], summary)

\* C27: label_data sets no voxel outside the polygon of a contour or off
\* its plane: indices computed for positions below the offset or beyond
\* the extent do not reach voxels at the other end of the mask.
C27_NoWrapAround ==
    \A k \in 1..Len(labelPairs) :
        LET lp == labelPairs[k]
        IN  \A z \in 0..(summary.sizez - 1), x \in 0..(summary.sizex - 1),
                y \in 0..(summary.sizey - 1) :
                  lp.data[z][x][y] =>
                      \E i \in 1..Len(rois[lp.roi].contours) :
                          /\ Covers(rois[lp.roi].contours[i], x, y, summary)
                          /\ z \in OwnPlanes(rois[lp.roi].contours[i], summary)

\* the structure set without the ROIs that have no contour data
RECURSIVE WithoutNoData(_)
WithoutNoData(rt) ==
    IF rt = <<>> THEN <<>>
    ELSE IF Head(rt).state = "nodata" THEN WithoutNoData(Tail(rt))
    ELSE <<Head(rt)>> \o WithoutNoData(Tail(rt))

\* the mask the contours cs[1..n] give on an empty mask
RECURSIVE MaskOfContours(_, _)
MaskOfContours(cs, n) ==
    IF n = 0 THEN FalseMask(summary.sizex, summary.sizey, summary.sizez)
    ELSE Toggle(MaskOfContours(cs, n - 1), Polygon(cs[n], summary),
                NumpyIndex(LabelZIdx(cs[n], summary), summary.sizez))

NoContours(roi) == ~roi.present \/ roi.contours = <<>>

\* C22: a ROI without contour sequence is left out of the results of
\* label_data and of region_names; it raises no error and the other
\* regions get the masks and names they get without it.
C22_RegionsWithoutContoursSkipped ==
    /\ \A k \in 1..Len(labelPairs) :
           /\ ~NoContours(rois[labelPairs[k].roi])
           /\ labelPairs[k].data
                 = MaskOfContours(rois[labelPairs[k].roi].contours,
                                  Len(rois[labelPairs[k].roi].contours))
    /\ pc = "label_done" =>
           {labelPairs[k].roi : k \in 1..Len(labelPairs)}
               = {i \in 1..Len(rois) :
                     LabelWanted(rois[i].name, labels) /\ ~NoContours(rois[i])}
    /\ (pc = "label_error" /\ roiIdx >= 1) => ~NoContours(rois[roiIdx])
    /\ pc \in {"names_done", "names_error"} =>
           LET r == SeriesRegionNames(WithoutNoData(rtRois), table, hasCase, rtArgs,
                                      rtArgs.allowUnknown)
           IN  /\ r.ok <=> pc = "names_done"
               /\ r.ok => [i \in 1..Len(names) |-> names[i].region]
                             = [i \in 1..Len(r.names) |-> r.names[i].key]
               /\ \A i \in 1..Len(names), j \in 1..Len(rtRois) :
                      (~MappingInUse /\ names[i].region.name = rtRois[j].name)
                          => rtRois[j].state # "nodata"

C22_Witness ==
    /\ pc = "label_done"
    /\ Len(rois) = 2
    /\ ~rois[1].present
    /\ Len(labelPairs) = 1
    /\ labelPairs[1].roi = 2
    /\ ~AllFalse(labelPairs[1].data)

\* C28: every selected region that region_data rasterises has its own
\* entry in the result, also when two source regions have the same
\* canonical name: the masks returned number the selected regions that
\* were rasterised.
C28_OneEntryPerRegion ==
    pc = "region_data_done" =>
        Len(regionDict) = Cardinality({j \in Selected : rtRois[j].state = "ok"})

\* C30: region_names applies the region map for the patient of the series:
\* the name it gives a region is the one to_internal gives for that
\* patient, so a rule that excepts the patient does not rename and a rule
\* for the patient only does.
C30_MapAppliedForOwnPatient ==
    (pc \in {"names_done", "names_error"} /\ MappingInUse) =>
        LET pairs == MapPairs(NamePairs(rtRois), table, hasCase, rtArgs)
        IN  \A i \in 1..Len(pairs) :
                pairs[i].key.name = ToInternal(table, hasCase, pairs[i].unmapped, patId).name

\* number of rows of the index that are CT files of the series
NumSeriesRows == Cardinality({i \in 1..Len(index) :
                                 index[i].modality = "CT" /\ index[i].series = seriesId})

\* how many times a file occurs in a list
Occurrences(fs, f) == Cardinality({i \in 1..Len(fs) : fs[i] = f})

\* C21: a CTSeries whose id has no row in the index is not constructed;
\* get_rtstruct and the construction of an RTSTRUCTSeries succeed only
\* when there is exactly one RTSTRUCT file; get_cts returns every slice of
\* the series, and only those, in ascending order of z.
C21_SeriesResolution ==
    /\ pc \in {"ctseries_ready", "get_cts_done"} => NumSeriesRows > 0
    /\ (pc = "ctseries_error" /\ err = "ValueError") => NumSeriesRows = 0
    /\ pc \in {"get_rtstruct_done", "rtseries_ready"} =>
           (rtstructDir.exists /\ rtstructDir.files = 1)
    /\ pc = "get_cts_done" =>
           /\ resolved.kind = "cts"
           /\ Len(resolved.cts) = NumSeriesRows
           /\ \A r \in IndexRows :
                  Occurrences(resolved.cts, r)
                      = IF r.modality = "CT" /\ r.series = seriesId
                        THEN Occurrences(index, r) ELSE 0
           /\ \A i \in 1..(Len(resolved.cts) - 1) :
                  resolved.cts[i].z <= resolved.cts[i + 1].z

C21_Witness ==
    /\ pc = "get_cts_done"
    /\ Len(index) = 3
    /\ Len(resolved.cts) = 2
    /\ index[1].z > index[3].z
    /\ index[1].series = seriesId
    /\ index[3].series = seriesId
    /\ resolved.cts[1].z < resolved.cts[2].z

\* the objects of a partition
Members(l) == {l[i] : i \in 1..Len(l)}

\* C25: the partitions of process_nifti are pairwise disjoint and hold
\* every object between them; train holds floor(p_train * n) objects;
\* validation holds floor(p_validation * n) and the rest goes to test,
\* unless p_test = 0: then validation holds every object that is not in
\* train and test is empty.
C25_Partitions ==
    pc = "nifti_done" =>
        LET n == Len(objectIds)
            tr == partitions.train
            va == partitions.validation
            te == partitions.test
        IN  /\ Members(tr) \cap Members(va) = {}
            /\ Members(tr) \cap Members(te) = {}
            /\ Members(va) \cap Members(te) = {}
            /\ Members(tr) \cup Members(va) \cup Members(te) = Members(objectIds)
            /\ Len(tr) + Len(va) + Len(te) = n
            /\ Len(tr) = FloorOf(proportions.train, n)
            /\ IF proportions.test = 0
               THEN te = <<>> /\ Len(va) = n - Len(tr)
               ELSE Len(va) = FloorOf(proportions.validation, n)

\* C29: a select with the name of an existing dataset makes it the active
\* dataset; a select with any other name raises and leaves the active
\* dataset as it was; a query leaves it as it was and is answered by it.
C29_SelectSetsActive ==
    [][ /\ pc' = "select_done" =>
              (selectArg' \in datasets /\ active' = selectArg')
        /\ pc' = "select_error" =>
              (selectArg' \notin datasets /\ active' = active /\ err' = "ValueError")
        /\ pc' = "query_done" =>
              (active' = active /\ answered'.by = active) ]_vars

C29_Witness ==
    /\ pc = "query_done"
    /\ active = "D1"
    /\ answered.by = "D1"
    /\ selectArg = "D2"
    /\ "D2" \notin datasets

====
